---- MODULE Spec2Model ----
(***************************************************************************)
(* Model of the account page of the quantrade dashboard                    *)
(* (src/frontend/src/pages/TaskPage.js, component AccountPage, lines       *)
(* 254-607): the position ledger, the 5 second quote polling, the account  *)
(* data fetch and the account switch; and of the log panel of the task     *)
(* page (component TaskPage, lines 7-253) with the api methods it calls    *)
(* (src/frontend/src/BackendAPI.js).                                       *)
(*                                                                         *)
(* One action is one task of the browser event loop: a user event, a timer *)
(* callback or the continuation of an await, together with the renders and *)
(* effects React runs for the state it sets.  Responses of the backend are *)
(* inputs; they may complete in any order.  The state summary (line 262)   *)
(* and selectedCurrency (line 266) are only displayed: no handler reads    *)
(* them, and they are left out.  Of the task page, the create form, the    *)
(* strategies and the task actions are left out: they do not touch the     *)
(* logs.                                                                   *)
(***************************************************************************)
EXTENDS Integers, Sequences, FiniteSets, TLC

VARIABLES
    mounted,          \* the AccountPage component is mounted
    positions,        \* useState([])            line 263
    loading,          \* useState(true)          line 264
    selectedAccount,  \* useState('paper')       line 265
    tradeSession,     \* useState('regular')     line 267
    marketPnl,        \* useState({US:0, HK:0})  line 268
    timers,           \* armed setInterval callbacks, each with the closure it captured
    fetches,          \* fetchAccountData calls suspended at the await of line 371
    quotes,           \* refreshQuote calls suspended at the await of line 337
    lastOp,           \* history: the task that ran last
    tasks,            \* TaskPage: useState([])    line 8, the ids of the tasks listed
    logs,             \* TaskPage: useState([])    line 9, each line by the task it is of
    selectedTaskId,   \* TaskPage: useState(null)  line 11
    logTimers,        \* TaskPage: armed setInterval callbacks, each with its closure
    calls,            \* TaskPage: api calls awaiting fetch() or response.json()
    lastTaskOp,       \* history: the task of the event loop that ran last on the task page
    answered          \* history: logs were set from a response for the selected
                      \* task since it was selected

accountVars == <<mounted, positions, loading, selectedAccount, tradeSession,
                 marketPnl, timers, fetches, quotes, lastOp>>

taskVars == <<tasks, logs, selectedTaskId, logTimers, calls, lastTaskOp, answered>>

vars == <<mounted, positions, loading, selectedAccount, tradeSession,
          marketPnl, timers, fetches, quotes, lastOp,
          tasks, logs, selectedTaskId, logTimers, calls, lastTaskOp, answered>>

----------------------------------------------------------------------------
(* Bounds *)

\* most refreshQuote calls that may be awaiting their response at once
MaxInFlight == 2

\* most api calls of the task page that may be awaiting their response at once
MaxCalls == 2

----------------------------------------------------------------------------
(* JavaScript values that take part in the arithmetic of refreshQuote *)

Num(n) == [t |-> "num", v |-> n]
NaN == [t |-> "nan", v |-> 0]
Undefined == [t |-> "undef", v |-> 0]

\* truthiness, as used by the || of line 339
Truthy(x) == x.t = "num" /\ x.v # 0

Sub(a, b) == IF a.t = "num" /\ b.t = "num" THEN Num(a.v - b.v) ELSE NaN
Mul(a, b) == IF a.t = "num" /\ b.t = "num" THEN Num(a.v * b.v) ELSE NaN
Add(a, b) == IF a.t = "num" /\ b.t = "num" THEN Num(a.v + b.v) ELSE NaN

\* obj[key] of a JavaScript object: undefined when the key is absent
Get(obj, key) == IF key \in DOMAIN obj THEN obj[key] ELSE Undefined

EmptyObject == [k \in {} |-> Undefined]

----------------------------------------------------------------------------
(* Program constants *)

accountOptions == {"paper", "live"}

sessionMap == {"regular", "pre_market", "post_market", "overnight"}

ZeroPnl == [US |-> Num(0), HK |-> Num(0)]

----------------------------------------------------------------------------
(* Inputs: the clock and the backend *)

\* minutes of the day (New York time) at which a pass may run: one in the
\* regular session, one after the close
Minutes == {600, 1000}

\* a symbol is the list of its dot-separated parts: "700.HK" is <<"700","HK">>
AAPL == <<"AAPL">>
HK700 == <<"700", "HK">>

\* position lists the positions endpoint may return for an account: the paper
\* account holds a US and a HK position, the live account holds none
BackendPositions(a) ==
    IF a = "paper"
    THEN { << [symbol |-> AAPL, quantity |-> 50, cost_price |-> 18000],
              [symbol |-> HK700, quantity |-> 100, cost_price |-> 300] >> }
    ELSE { << >> }

\* quote records the quote endpoint may return for one symbol
QuoteRecords ==
    { ("regular_price" :> Num(18540)),
      ("post_market_price" :> Num(0)) @@ ("regular_price" :> Num(18540)),
      ("post_market_price" :> Num(19000)) @@ ("regular_price" :> Num(18540)) }

Symbols(pos) == { pos[i].symbol : i \in 1..Len(pos) }

\* a price map that holds the regular price of some of the symbols of pos
PartialMaps(pos) ==
    UNION { [S -> {("regular_price" :> Num(18540))}] : S \in SUBSET Symbols(pos) }

\* outcomes of api.getQuotePrice for a request of the symbols of pos: the
\* promise rejects, resolves with undefined, or resolves with a price map
\* that holds a record for every symbol or for some of the symbols
QuoteResponses(pos) ==
    { [kind |-> "reject", map |-> EmptyObject],
      [kind |-> "undefined", map |-> EmptyObject] }
    \cup { [kind |-> "map", map |-> m] : m \in [Symbols(pos) -> QuoteRecords] }
    \cup { [kind |-> "map", map |-> m] : m \in PartialMaps(pos) }

NoResponse == [kind |-> "none", map |-> EmptyObject]

----------------------------------------------------------------------------
(* refreshTradeSession, lines 299-323: label is the argument of            *)
(* setTradeSession, ret the value returned                                 *)

\* variant: the night hours are stored under a label sessionMap does not have
refreshTradeSession_Closed(timeInMinutes) ==
    IF timeInMinutes >= 570 /\ timeInMinutes < 960
    THEN [label |-> "regular", ret |-> "current"]
    ELSE IF timeInMinutes >= 960 /\ timeInMinutes < 1200
    THEN [label |-> "post_market", ret |-> "post_market"]
    ELSE IF timeInMinutes >= 1200 \/ timeInMinutes < 240
    THEN [label |-> "closed", ret |-> "post_market"]
    ELSE [label |-> "pre_market", ret |-> "pre_market"]

\* variant: the hours before the open are labelled as the regular session
refreshTradeSession_NoPreMarket(timeInMinutes) ==
    IF timeInMinutes >= 570 /\ timeInMinutes < 960
    THEN [label |-> "regular", ret |-> "current"]
    ELSE IF timeInMinutes >= 960 /\ timeInMinutes < 1200
    THEN [label |-> "post_market", ret |-> "post_market"]
    ELSE IF timeInMinutes >= 1200 \/ timeInMinutes < 240
    THEN [label |-> "post_market", ret |-> "post_market"]
    ELSE [label |-> "regular", ret |-> "current"]

\* variant: the minute the regular session opens still counts as pre-market
refreshTradeSession_LateOpen(timeInMinutes) ==
    IF timeInMinutes > 570 /\ timeInMinutes < 960
    THEN [label |-> "regular", ret |-> "current"]
    ELSE IF timeInMinutes >= 960 /\ timeInMinutes < 1200
    THEN [label |-> "post_market", ret |-> "post_market"]
    ELSE IF timeInMinutes >= 1200 \/ timeInMinutes < 240
    THEN [label |-> "post_market", ret |-> "post_market"]
    ELSE [label |-> "pre_market", ret |-> "pre_market"]

refreshTradeSession(timeInMinutes) ==
    IF timeInMinutes >= 570 /\ timeInMinutes < 960
    THEN [label |-> "regular", ret |-> "current"]
    ELSE IF timeInMinutes >= 960 /\ timeInMinutes < 1200
    THEN [label |-> "post_market", ret |-> "post_market"]
    ELSE IF timeInMinutes >= 1200 \/ timeInMinutes < 240
    THEN [label |-> "post_market", ret |-> "post_market"]
    ELSE [label |-> "pre_market", ret |-> "pre_market"]

\* the conditions of the if statements of lines 309, 312 and 315, each taken
\* alone, and the label its block stores; the else block of line 318 has no
\* condition of its own
BranchCondition(b, timeInMinutes) ==
    IF b = 1 THEN timeInMinutes >= 570 /\ timeInMinutes < 960
    ELSE IF b = 2 THEN timeInMinutes >= 960 /\ timeInMinutes < 1200
    ELSE timeInMinutes >= 1200 \/ timeInMinutes < 240

BranchLabel(b) ==
    IF b = 1 THEN "regular"
    ELSE IF b = 2 THEN "post_market"
    ELSE IF b = 3 THEN "post_market"
    ELSE "pre_market"

----------------------------------------------------------------------------
(* Pure parts of refreshQuote and fetchAccountData *)

\* line 339: priceMap[p.symbol][ts + "_price"] || priceMap[p.symbol]["regular_price"]
SelectPrice(Q, ts) ==
    LET sessionPrice == Get(Q, ts \o "_price")
    IN  IF Truthy(sessionPrice) THEN sessionPrice ELSE Get(Q, "regular_price")

\* variant: the quantity is left out of the pnl
UpdatePosition_PnlPerShare(p, Q, ts) ==
    LET price == SelectPrice(Q, ts)
    IN  [p EXCEPT !.price = price, !.pnl = Sub(price, Num(p.cost_price))]

\* lines 338-348, one position
UpdatePosition(p, Q, ts) ==
    LET price == SelectPrice(Q, ts)
        pnl == Mul(Sub(price, Num(p.cost_price)), Num(p.quantity))
    IN  [p EXCEPT !.price = price, !.pnl = pnl]

\* lines 338-348: pos.map(...)
UpdatedPositions(pos, priceMap, ts) ==
    [i \in 1..Len(pos) |-> UpdatePosition(pos[i], priceMap[pos[i].symbol], ts)]

\* lines 334, 341: mpnl[p.market] += pnl, over the positions in order
RECURSIVE AccumulatePnl(_, _, _)
AccumulatePnl(mpnl, updated, i) ==
    IF i > Len(updated) THEN mpnl
    ELSE LET m == updated[i].market
             next == IF m \in DOMAIN mpnl
                     THEN [mpnl EXCEPT ![m] = Add(@, updated[i].pnl)]
                     ELSE mpnl @@ (m :> NaN)
         IN  AccumulatePnl(next, updated, i + 1)

\* line 382: p.symbol.includes('.') ? p.symbol.split('.')[1] : 'US'
MarketOf(symbol) == IF Len(symbol) > 1 THEN symbol[2] ELSE "US"

\* lines 379-385: the records of the response, {...p, market: ...}: every
\* field of the record is copied and market is set, over a market the record
\* may carry; price and pnl are absent (undefined) until the first quote
SeedPositions(raw) ==
    [i \in 1..Len(raw) |->
        [f \in DOMAIN raw[i] \cup {"market", "price", "pnl"} |->
            IF f = "market" THEN MarketOf(raw[i].symbol)
            ELSE IF f \in DOMAIN raw[i] THEN raw[i][f]
            ELSE Undefined]]

\* variant: the pass is not skipped for an empty list
SkipsPass_Never(pos) == FALSE

\* line 332: if (pos.length === 0) return
SkipsPass(pos) == Len(pos) = 0

\* variant: the pass adds to the totals of the pass before it
NewMpnl_Running == marketPnl

\* line 334: const mpnl = { US: 0, HK: 0 }
NewMpnl == ZeroPnl

\* the response makes the body of the try block throw: the promise rejected,
\* or priceMap or priceMap[p.symbol] is undefined for a position of pos
QuoteThrows(pos, resp) ==
    \/ resp.kind # "map"
    \/ \E i \in 1..Len(pos) : pos[i].symbol \notin DOMAIN resp.map

----------------------------------------------------------------------------
(* Closures and history *)

\* the interval callback of lines 360-362 closes over the refreshQuote of the
\* render that armed it: that render's selectedAccount and positions
Timer(account, pos) == [account |-> account, pos |-> pos]

\* variant: the cleanup of the effect does not clear the previous interval
Rearm_NoCleanup(account, pos) == IF mounted THEN timers \cup {Timer(account, pos)} ELSE {}

\* useEffect of lines 358-364 after a render in which positions changed:
\* the cleanup clears the previous interval, then a new one is armed
Rearm(account, pos) == IF mounted THEN {Timer(account, pos)} ELSE {}

\* history record of a task: which handler ran, the account its closure held,
\* whether it called api.getQuotePrice, and for a quote response whether a
\* later pass of the same account had already been applied and, when the
\* response was applied, the session and the response of the pass.  minute is
\* the minute of the day refreshTradeSession read in the task (-1: it was not
\* called); repeat tells that the task applied the same price map, for the
\* same session, as the task before it
Op(op, account, issued, stale, ts, resp) ==
    [op |-> op, account |-> account, issued |-> issued, stale |-> stale,
     ts |-> ts, resp |-> resp, minute |-> -1, repeat |-> FALSE]

\* the history record of a task that called refreshTradeSession at minute t
ClockRead(op, t) == [op EXCEPT !.minute = t]

\* what the continuation of refreshQuote reads of its snapshot pos: every field
\* but price and pnl, which lines 345-346 overwrite
Snapshot(pos) ==
    [i \in 1..Len(pos) |-> [pos[i] EXCEPT !.price = Undefined, !.pnl = Undefined]]

\* a refreshQuote call suspended at line 337; superseded is history: a pass
\* issued later for the same account has written the ledger since
QuoteRequest(account, pos, ts) ==
    [account |-> account, pos |-> Snapshot(pos), ts |-> ts, superseded |-> FALSE]

Fresh(qs) == [j \in 1..Len(qs) |-> [qs[j] EXCEPT !.superseded = FALSE]]

RemoveAt(s, i) == [j \in 1..(Len(s) - 1) |-> IF j < i THEN s[j] ELSE s[j + 1]]

----------------------------------------------------------------------------
(* The api methods (BackendAPI.js) and the values of the task page *)

\* task ids; "null" stands for the null of useState(null)
TaskIds == {"A", "B"}

\* the value an api promise resolves with: undefined, or the object data.data
\* with or without the list (logs, tasks) the caller reads
DataUndefined == [t |-> "undef", haslist |-> FALSE, list |-> << >>]
DataWithout == [t |-> "obj", haslist |-> FALSE, list |-> << >>]
DataWith(list) == [t |-> "obj", haslist |-> TRUE, list |-> list]

\* an api method suspended at await fetch(...) (stage "fetch") or at
\* await response.json() (stage "json")
Call(method, taskId) == [method |-> method, taskId |-> taskId, stage |-> "fetch"]

\* what the backend holds for a call: the log lines of the task, the task list
ListFor(call) ==
    IF call.method = "fetchLogs" THEN << call.taskId >> ELSE << "A", "B" >>

\* results of response.json() for a call: it throws, or yields null, or an
\* object with success false, or with success true and data absent, or data
\* without the list, or data with the list
Bodies(call) ==
    { [kind |-> "unparsable", success |-> FALSE, data |-> DataUndefined],
      [kind |-> "null", success |-> FALSE, data |-> DataUndefined],
      [kind |-> "object", success |-> FALSE, data |-> DataUndefined],
      [kind |-> "object", success |-> TRUE, data |-> DataUndefined],
      [kind |-> "object", success |-> TRUE, data |-> DataWithout],
      [kind |-> "object", success |-> TRUE, data |-> DataWith(ListFor(call))] }

NoBody == [kind |-> "none", success |-> FALSE, data |-> DataUndefined]

\* the try block of an api method, e.g. lines 76-83: fetch rejects on a
\* network error, response.json() throws on an unparsable body, data.success
\* throws on null, and success false throws new Error
ApiTry(net, body) ==
    IF net = "error" THEN [outcome |-> "throw", value |-> DataUndefined]
    ELSE IF body.kind # "object" THEN [outcome |-> "throw", value |-> DataUndefined]
    ELSE IF body.success THEN [outcome |-> "return", value |-> body.data]
    ELSE [outcome |-> "throw", value |-> DataUndefined]

\* variant: the error is thrown on to the caller
ApiCatch_Rethrows(r) ==
    IF r.outcome = "throw"
    THEN [promise |-> "rejected", value |-> DataUndefined]
    ELSE [promise |-> "resolved", value |-> r.value]

\* the catch block, e.g. lines 84-86, only logs: the async function returns
\* undefined
ApiCatch(r) ==
    IF r.outcome = "throw"
    THEN [promise |-> "resolved", value |-> DataUndefined]
    ELSE [promise |-> "resolved", value |-> r.value]

\* how the call failed, or "success"
Outcome(net, body) ==
    IF net = "error" THEN "network_error"
    ELSE IF body.kind # "object" THEN body.kind
    ELSE IF body.success THEN "success"
    ELSE "success_false"

\* the closure of the interval of line 69
LogTimer(id) == [selectedTaskId |-> id]

TaskOp(op, taskId, issued) ==
    [op |-> op, taskId |-> taskId, issued |-> issued, method |-> "",
     outcome |-> "", promise |-> "", value |-> DataUndefined]

----------------------------------------------------------------------------
Init ==
    /\ mounted = TRUE
    /\ positions = << >>
    /\ loading = TRUE
    /\ selectedAccount = "paper"
    /\ tradeSession = "regular"
    /\ marketPnl = ZeroPnl
    /\ timers = {Timer("paper", << >>)}
    /\ fetches = << [account |-> "paper", cause |-> "mount"] >>
    /\ quotes = << >>
    /\ lastOp = Op("mount", "paper", FALSE, FALSE, "", NoResponse)
    /\ tasks = << >>
    /\ logs = << >>
    /\ selectedTaskId = "null"
    /\ logTimers = {LogTimer("null")}
    /\ calls = << Call("fetchTasks", "null") >>
    /\ lastTaskOp = TaskOp("mount", "null", FALSE)
    /\ answered = FALSE

----------------------------------------------------------------------------
(* fetchAccountData up to its await, lines 367-374, called for account a:  *)
(* the render that follows re-arms the interval with the empty ledger      *)
StartFetch(a, cause) ==
    /\ loading' = TRUE
    /\ marketPnl' = ZeroPnl
    /\ positions' = << >>
    /\ fetches' = Append(fetches, [account |-> a, cause |-> cause])
    /\ timers' = Rearm(a, << >>)
    /\ quotes' = Fresh(quotes)
    /\ UNCHANGED <<mounted, tradeSession>>

\* variant: the controls are rendered while the spinner should be shown
CanInteract_WhileLoading == mounted

\* the user may act on the page: the selector and the refresh button are
\* rendered only when loading is false (line 395)
CanInteract == mounted /\ ~loading

\* CustomSelect onChange={setSelectedAccount} (line 413), then the effect of
\* lines 325-327
SwitchAccount(b) ==
    /\ CanInteract
    /\ b # selectedAccount
    /\ selectedAccount' = b
    /\ StartFetch(b, "switch")
    /\ lastOp' = Op("switch", b, FALSE, FALSE, "", NoResponse)
    /\ UNCHANGED taskVars

\* the refresh button, onClick={fetchAccountData} (line 423)
Refresh ==
    /\ CanInteract
    /\ UNCHANGED selectedAccount
    /\ StartFetch(selectedAccount, "refresh")
    /\ lastOp' = Op("refresh", selectedAccount, FALSE, FALSE, "", NoResponse)
    /\ UNCHANGED taskVars

\* the interval callback, lines 360-362: refreshQuote() up to its await
\* (lines 331-337) at minute t of the day
TimerTick(tm, t) ==
    /\ tm \in timers
    /\ IF SkipsPass(tm.pos)
       THEN /\ UNCHANGED <<tradeSession, quotes>>
            /\ lastOp' = Op("tick", tm.account, FALSE, FALSE, "", NoResponse)
       ELSE /\ Len(quotes) < MaxInFlight
            /\ tradeSession' = refreshTradeSession(t).label
            /\ quotes' = Append(quotes,
                    QuoteRequest(tm.account, tm.pos, refreshTradeSession(t).ret))
            /\ lastOp' = ClockRead(Op("tick", tm.account, TRUE, FALSE, "", NoResponse), t)
    /\ UNCHANGED <<mounted, positions, loading, selectedAccount,
                   marketPnl, timers, fetches>>
    /\ UNCHANGED taskVars

\* variant: loading is reset on success only
LoadingAfterFetch_OnSuccess(ok) == ~ok

\* the finally block of lines 390-392: setLoading(false) on every path
LoadingAfterFetch(ok) == FALSE

\* fetchAccountData after its await, lines 375-392.  ok: the positions
\* response has the channels structure and carries the list raw; otherwise
\* line 378 throws.  State setters of an unmounted component do nothing, the
\* call of refreshQuote still runs.
FetchResponse(i, ok, raw, t) ==
    LET f == fetches[i]
        seeded == SeedPositions(raw)
        issue == ok /\ ~SkipsPass(seeded)
    IN  /\ i \in 1..Len(fetches)
        /\ issue => Len(quotes) < MaxInFlight
        /\ fetches' = RemoveAt(fetches, i)
        /\ positions' = IF mounted /\ ok THEN seeded ELSE positions
        /\ timers' = IF mounted /\ ok THEN Rearm(selectedAccount, seeded) ELSE timers
        /\ tradeSession' = IF mounted /\ issue
                           THEN refreshTradeSession(t).label ELSE tradeSession
        /\ quotes' = IF issue
                     THEN Append(IF mounted THEN Fresh(quotes) ELSE quotes,
                            QuoteRequest(f.account, seeded, refreshTradeSession(t).ret))
                     ELSE IF mounted /\ ok THEN Fresh(quotes) ELSE quotes
        /\ loading' = IF mounted THEN LoadingAfterFetch(ok) ELSE loading
        /\ lastOp' = LET op == Op(IF ok THEN "fetch_ok" ELSE "fetch_fail", f.account,
                                  issue, FALSE, "", NoResponse)
                      IN  IF issue THEN ClockRead(op, t) ELSE op
        /\ UNCHANGED <<mounted, selectedAccount, marketPnl>>
        /\ UNCHANGED taskVars

Ledger == [positions |-> positions, marketPnl |-> marketPnl]

\* variant: a failed pass clears the prices
CatchQuoteError_ClearsPrices(ledger) ==
    [positions |-> Snapshot(ledger.positions), marketPnl |-> ZeroPnl]

\* the catch block of lines 352-354 only logs: the ledger (positions and
\* marketPnl) is what it was
CatchQuoteError(ledger) == ledger

\* variant: a failed pass clears the interval
TimersAfterError_Cleared(armed) == {}

\* the catch block of lines 352-354 does not touch the interval of line 360
TimersAfterError(armed) == armed

\* the requests left in flight after the response of request i was applied:
\* the ones issued before it for the same account are now superseded
Supersede(qs, i) ==
    RemoveAt([j \in 1..Len(qs) |->
                 IF j < i /\ qs[j].account = qs[i].account
                 THEN [qs[j] EXCEPT !.superseded = TRUE] ELSE qs[j]], i)

\* refreshQuote after its await, lines 337-354, for the request i and the
\* response resp
QuoteResponse(i, resp) ==
    LET q == quotes[i]
        updatedPositions == UpdatedPositions(q.pos, resp.map, q.ts)
    IN  /\ i \in 1..Len(quotes)
        /\ IF QuoteThrows(q.pos, resp)
           THEN /\ quotes' = RemoveAt(quotes, i)
                /\ lastOp' = IF resp.kind = "map"
                             THEN Op("quote_partial", q.account, FALSE, q.superseded,
                                     q.ts, resp)
                             ELSE Op("quote_fail", q.account, FALSE, q.superseded,
                                     "", NoResponse)
                /\ positions' = CatchQuoteError(Ledger).positions
                /\ marketPnl' = CatchQuoteError(Ledger).marketPnl
                /\ timers' = TimersAfterError(timers)
           ELSE /\ lastOp' = [Op("quote_ok", q.account, FALSE, q.superseded, q.ts, resp)
                                 EXCEPT !.repeat = /\ mounted
                                                   /\ lastOp.op = "quote_ok"
                                                   /\ lastOp.account = q.account
                                                   /\ lastOp.resp = resp
                                                   /\ lastOp.ts = q.ts]
                /\ IF mounted
                   THEN /\ marketPnl' = AccumulatePnl(NewMpnl, updatedPositions, 1)
                        /\ positions' = updatedPositions
                        /\ timers' = Rearm(selectedAccount, updatedPositions)
                        /\ quotes' = Supersede(quotes, i)
                   ELSE /\ quotes' = RemoveAt(quotes, i)
                        /\ UNCHANGED <<positions, marketPnl, timers>>
        /\ UNCHANGED <<mounted, loading, selectedAccount, tradeSession, fetches>>
        /\ UNCHANGED taskVars

\* the page is left: the cleanup of the effect of lines 358-364 clears the
\* interval and React discards the state of the component (the variables go
\* back to their initial values and stay there); requests in flight are not
\* cancelled
Unmount ==
    /\ mounted
    /\ mounted' = FALSE
    /\ timers' = {}
    /\ positions' = << >>
    /\ marketPnl' = ZeroPnl
    /\ loading' = TRUE
    /\ selectedAccount' = "paper"
    /\ tradeSession' = "regular"
    /\ lastOp' = Op("unmount", selectedAccount, FALSE, FALSE, "", NoResponse)
    /\ UNCHANGED <<fetches, quotes>>
    /\ UNCHANGED taskVars

\* the user picks another account
Switch == \E b \in accountOptions : SwitchAccount(b)

\* an armed interval fires
Tick == \E tm \in timers, t \in Minutes : TimerTick(tm, t)

\* the responses awaited at line 371 arrive
AccountDataArrives ==
    \E i \in 1..Len(fetches), ok \in BOOLEAN, t \in Minutes :
        \E raw \in BackendPositions(fetches[i].account) :
            FetchResponse(i, ok, raw, t)

\* the response awaited at line 337 arrives, for any request in flight
QuoteArrives ==
    \E i \in 1..Len(quotes) :
        \E resp \in QuoteResponses(quotes[i].pos) : QuoteResponse(i, resp)

Next ==
    \/ Switch
    \/ Refresh
    \/ Tick
    \/ AccountDataArrives
    \/ QuoteArrives
    \/ Unmount

Spec == Init /\ [][Next]_vars

TypeOK ==
    /\ mounted \in BOOLEAN
    /\ loading \in BOOLEAN
    /\ selectedAccount \in accountOptions
    /\ tradeSession \in sessionMap
    /\ Len(quotes) <= MaxInFlight

----------------------------------------------------------------------------
(* The page under every reading of the New York clock: the positions of    *)
(* the paper account arrive, the interval fires at any minute of the day,  *)
(* and every quote request is answered, by a rejection, before the        *)
(* interval fires again                                                    *)

\* line 306: nyTime.getHours() * 60 + nyTime.getMinutes()
DayMinutes == 0..1439

ClockSeed ==
    \E i \in 1..Len(fetches), t \in DayMinutes :
        \E raw \in BackendPositions(fetches[i].account) :
            FetchResponse(i, TRUE, raw, t)

ClockTick ==
    /\ Len(quotes) = 0
    /\ \E tm \in timers, t \in DayMinutes : TimerTick(tm, t)

ClockDrain ==
    \E i \in 1..Len(quotes) : QuoteResponse(i, [kind |-> "reject", map |-> EmptyObject])

ClockNext ==
    \/ ClockSeed
    \/ ClockTick
    \/ ClockDrain

SpecClock == Init /\ [][ClockNext]_vars

----------------------------------------------------------------------------
(* The polling of the page: the quote endpoint fails or answers with the   *)
(* regular price of every symbol                                           *)

PollResponses(pos) ==
    { [kind |-> "reject", map |-> EmptyObject],
      [kind |-> "undefined", map |-> EmptyObject],
      [kind |-> "map", map |-> [sym \in Symbols(pos) |-> ("regular_price" :> Num(18540))]] }

PollSeed ==
    \E i \in 1..Len(fetches), ok \in BOOLEAN, t \in Minutes :
        \E raw \in BackendPositions(fetches[i].account) :
            FetchResponse(i, ok, raw, t)

PollTick == \E tm \in timers, t \in Minutes : TimerTick(tm, t)

PollAnswer ==
    \E i \in 1..Len(quotes) :
        \E resp \in PollResponses(quotes[i].pos) : QuoteResponse(i, resp)

PollNext ==
    \/ PollSeed
    \/ PollTick
    \/ PollAnswer
    \/ Switch
    \/ Refresh
    \/ Unmount

\* setInterval (line 360) keeps firing the callback while the interval is
\* armed, and a request awaited at line 337 is settled in the end
SpecPoll == Init /\ [][PollNext]_vars /\ SF_vars(PollTick) /\ WF_vars(PollAnswer)

\* the two requests awaited at line 371 are settled in the end (the api
\* methods resolve on every path and the browser ends a request that hangs);
\* a request waits for its response only while the requests in flight leave
\* room for the quote request that follows it
SpecFetch ==
    Init /\ [][PollNext]_vars /\ WF_vars(PollSeed) /\ WF_vars(PollAnswer)

----------------------------------------------------------------------------
(* The page of one account under other data: a US symbol of a share class, *)
(* position records that carry a market of their own, and quote records    *)
(* without any price                                                       *)

BRKB == <<"BRK", "B">>

DataPositions ==
    { << [symbol |-> AAPL, quantity |-> 50, cost_price |-> 18000, market |-> "NASDAQ"],
         [symbol |-> HK700, quantity |-> 100, cost_price |-> 300, market |-> "SEHK"] >>,
      << [symbol |-> BRKB, quantity |-> 10, cost_price |-> 40000, market |-> "NYSE"] >> }

DataRecords ==
    { EmptyObject,
      ("regular_price" :> Num(18540)),
      ("post_market_price" :> Num(19000)) @@ ("regular_price" :> Num(18540)) }

DataResponses(pos) ==
    { [kind |-> "reject", map |-> EmptyObject] }
    \cup { [kind |-> "map", map |-> m] : m \in [Symbols(pos) -> DataRecords] }

DataSeed ==
    \E i \in 1..Len(fetches), t \in Minutes :
        \E raw \in DataPositions : FetchResponse(i, TRUE, raw, t)

DataAnswer ==
    \E i \in 1..Len(quotes) :
        \E resp \in DataResponses(quotes[i].pos) : QuoteResponse(i, resp)

DataNext ==
    \/ DataSeed
    \/ Tick
    \/ DataAnswer
    \/ Refresh

SpecData == Init /\ [][DataNext]_vars

----------------------------------------------------------------------------
(* The task page: the task list, the selection of a task and its logs *)

\* fetchLogs of a render whose selectedTaskId is id, lines 39-41, up to the
\* call of api.fetchLogs
fetchLogs(id) ==
    IF id = "null"
    THEN UNCHANGED calls
    ELSE /\ Len(calls) < MaxCalls
         /\ calls' = Append(calls, Call("fetchLogs", id))

\* a click on the row of task id (line 182) selects it, or deselects it when
\* it is the selected one; the effect of lines 73-75 then runs the fetchLogs
\* of the new render
SelectTask(id) ==
    LET new == IF selectedTaskId = id THEN "null" ELSE id
    IN  /\ \E k \in 1..Len(tasks) : tasks[k] = id
        /\ selectedTaskId' = new
        /\ fetchLogs(new)
        /\ answered' = FALSE
        /\ lastTaskOp' = TaskOp("select", new, new # "null")
        /\ UNCHANGED <<tasks, logs, logTimers>>
        /\ UNCHANGED accountVars

\* the refresh button of the log panel (line 229), rendered while a task is
\* selected (line 222)
RefreshLogs ==
    /\ selectedTaskId # "null"
    /\ fetchLogs(selectedTaskId)
    /\ lastTaskOp' = TaskOp("refresh_logs", selectedTaskId, TRUE)
    /\ UNCHANGED <<tasks, logs, selectedTaskId, logTimers, answered>>
    /\ UNCHANGED accountVars

\* the interval of line 69 fires: it calls the fetchLogs it was armed with
LogTimerTick(tm) ==
    /\ tm \in logTimers
    /\ fetchLogs(tm.selectedTaskId)
    /\ lastTaskOp' = TaskOp("tick", tm.selectedTaskId, tm.selectedTaskId # "null")
    /\ UNCHANGED <<tasks, logs, selectedTaskId, logTimers, answered>>
    /\ UNCHANGED accountVars

\* the api method of call i ends with net and body, its promise settles and
\* the then callback of the caller runs (lines 33-36, 41-43): reading .tasks
\* or .logs of undefined throws in the callback and no state is set
Settle(i, net, body) ==
    LET c == calls[i]
        r == ApiCatch(ApiTry(net, body))
        applied == r.promise = "resolved" /\ r.value.t # "undef"
        list == IF r.value.haslist THEN r.value.list ELSE << >>
    IN  /\ calls' = RemoveAt(calls, i)
        /\ logs' = IF applied /\ c.method = "fetchLogs" THEN list ELSE logs
        /\ tasks' = IF applied /\ c.method = "fetchTasks" THEN list ELSE tasks
        /\ answered' = (answered \/ (applied /\ c.method = "fetchLogs"
                                        /\ c.taskId = selectedTaskId))
        /\ lastTaskOp' = [TaskOp("settled", c.taskId, FALSE) EXCEPT
                             !.method = c.method, !.outcome = Outcome(net, body),
                             !.promise = r.promise, !.value = r.value]
        /\ UNCHANGED <<selectedTaskId, logTimers>>
        /\ UNCHANGED accountVars

\* await fetch(...) of call i ends: with a network error, or with a response
FetchSettles(i, net) ==
    /\ i \in 1..Len(calls)
    /\ calls[i].stage = "fetch"
    /\ IF net = "error"
       THEN Settle(i, net, NoBody)
       ELSE /\ calls' = [calls EXCEPT ![i].stage = "json"]
            /\ lastTaskOp' = TaskOp("response", calls[i].taskId, FALSE)
            /\ UNCHANGED <<tasks, logs, selectedTaskId, logTimers, answered>>
            /\ UNCHANGED accountVars

\* await response.json() of call i ends with body
JsonSettles(i, body) ==
    /\ i \in 1..Len(calls)
    /\ calls[i].stage = "json"
    /\ Settle(i, "response", body)

Select == \E id \in TaskIds : SelectTask(id)

LogTick == \E tm \in logTimers : LogTimerTick(tm)

FetchArrives ==
    \E i \in 1..Len(calls), net \in {"error", "response"} : FetchSettles(i, net)

JsonArrives ==
    \E i \in 1..Len(calls) : \E body \in Bodies(calls[i]) : JsonSettles(i, body)

TaskNext ==
    \/ Select
    \/ RefreshLogs
    \/ LogTick
    \/ FetchArrives
    \/ JsonArrives

SpecTask == Init /\ [][TaskNext]_vars

----------------------------------------------------------------------------
(* Properties *)

QuoteResponseStep == lastOp'.op \in {"quote_ok", "quote_fail", "quote_partial"}

LedgerUnchanged == positions' = positions /\ marketPnl' = marketPnl

\* C1: a quote response whose request was issued while another account was
\* selected than the one selected when it arrives changes neither positions
\* nor marketPnl.
C1_StaleAccountResponseIgnored ==
    [][(QuoteResponseStep /\ mounted /\ lastOp'.account # selectedAccount)
          => LedgerUnchanged]_vars

\* C2: the response of an older pass that arrives after the response of a
\* newer pass of the same account was applied is ignored: the ledger written
\* by the newer pass stays.
C2_OlderResponseIgnored ==
    [][(QuoteResponseStep /\ mounted /\ lastOp'.stale) => LedgerUnchanged]_vars

\* the sum of pnl over the positions of market m, a position without pnl
\* counting as 0
RECURSIVE SumPnl(_, _)
SumPnl(pos, m) ==
    IF Len(pos) = 0 THEN 0
    ELSE LET p == pos[Len(pos)]
             rest == SumPnl(SubSeq(pos, 1, Len(pos) - 1), m)
         IN  IF p.market = m /\ p.pnl.t = "num" THEN rest + p.pnl.v ELSE rest

\* C3: in every state marketPnl[m] is the sum of pnl over the positions of
\* market m in the ledger, for m in {US, HK}.
C3_MarketPnlIsSum ==
    \A m \in {"US", "HK"} : marketPnl[m] = Num(SumPnl(positions, m))

\* C4: a pass whose quote fetch fails (the promise rejects or resolves with
\* no usable price map) leaves positions and marketPnl as they were: no price
\* or pnl is reset.
C4_FailedPassIsNoOp ==
    [][(lastOp'.op \in {"quote_fail", "quote_partial"}) => LedgerUnchanged]_vars

\* a failed response has just been handled while the ledger holds prices
C4_Witness ==
    /\ lastOp.op = "quote_fail"
    /\ mounted
    /\ Len(positions) > 0
    /\ \A i \in 1..Len(positions) : positions[i].price.t = "num"

\* the fields of the ledger a quote response must not touch
Holdings(pos) ==
    [i \in 1..Len(pos) |-> [symbol |-> pos[i].symbol, quantity |-> pos[i].quantity,
                            cost_price |-> pos[i].cost_price]]

\* C5: applying a quote response changes only price and pnl: the symbols of
\* the ledger and each position's quantity and cost_price are the same right
\* after the response is applied as right before.
C5_QuoteResponseKeepsHoldings ==
    [][(lastOp'.op = "quote_ok" /\ mounted) => Holdings(positions') = Holdings(positions)]_vars

\* C6: an account switch clears the ledger, and the timer issues no quote
\* request for the new account while the positions fetch started by the
\* switch is still in flight.
C6_NoQuoteBeforeSeed ==
    /\ lastOp.op = "switch" => positions = << >>
    /\ (mounted /\ lastOp.op = "tick" /\ lastOp.issued)
          => ~\E i \in 1..Len(fetches) :
                 fetches[i].cause = "switch" /\ fetches[i].account = lastOp.account

\* C7: after the page is unmounted no call of api.getQuotePrice is issued,
\* neither by the timer nor by an account fetch that was in flight.
C7_NoPassAfterUnmount == lastOp.issued => mounted

\* C8: whenever fetchAccountData seeds the ledger, the account the positions
\* were fetched for is the selected account.
C8_SeedIsForSelectedAccount ==
    (lastOp.op = "fetch_ok" /\ mounted) => lastOp.account = selectedAccount

\* the ledger has just been seeded for the account the user switched to,
\* while a quote request of the account selected before is still in flight
C8_Witness ==
    /\ lastOp.op = "fetch_ok"
    /\ mounted
    /\ lastOp.account = "live"
    /\ selectedAccount = "live"
    /\ \E i \in 1..Len(quotes) : quotes[i].account = "paper"

\* the rule of the specification: the price of the session when the record
\* has one, the regular price otherwise
SessionPriceOrRegular(Q, S) ==
    IF (S \o "_price") \in DOMAIN Q THEN Q[S \o "_price"] ELSE Get(Q, "regular_price")

\* C9: the price written for a position is the record's price for the
\* resolved session whenever the record has one (0 included), and the
\* record's regular price otherwise.
C9_PriceIsSessionPriceIfPresent ==
    (lastOp.op = "quote_ok" /\ mounted)
        => \A i \in 1..Len(positions) :
              positions[i].price =
                  SessionPriceOrRegular(lastOp.resp.map[positions[i].symbol], lastOp.ts)

\* C10: every position that has a price has pnl = (price - cost_price) *
\* quantity; in the regular session a record with only a regular price p
\* gives price p.
C10_PnlIsDerived ==
    /\ \A i \in 1..Len(positions) :
          positions[i].price.t = "num"
              => positions[i].pnl =
                    Num((positions[i].price.v - positions[i].cost_price)
                            * positions[i].quantity)
    /\ (lastOp.op = "quote_ok" /\ mounted /\ lastOp.ts = "current")
          => \A i \in 1..Len(positions) :
                LET Q == lastOp.resp.map[positions[i].symbol]
                IN  DOMAIN Q = {"regular_price"} => positions[i].price = Q["regular_price"]

\* AAPL, 50 shares at 180.00, quoted 185.40 in the regular session: pnl 270.00
\* (amounts in cents)
C10_Witness ==
    /\ lastOp.op = "quote_ok"
    /\ mounted
    /\ lastOp.ts = "current"
    /\ \E i \in 1..Len(positions) :
          /\ positions[i].symbol = AAPL
          /\ positions[i].quantity = 50
          /\ positions[i].cost_price = 18000
          /\ DOMAIN lastOp.resp.map[AAPL] = {"regular_price"}
          /\ positions[i].price = Num(18540)
          /\ positions[i].pnl = Num(27000)

----------------------------------------------------------------------------
(* The trading-session clock *)

\* C11: a task that read the New York clock at minute t has stored the label
\* pre_market for 240 <= t < 570, regular for 570 <= t < 960 and post_market
\* for 960 <= t < 1200; 570 and 960 belong to the session that begins there
C11_SessionRanges ==
    (mounted /\ lastOp.minute >= 0) =>
        LET t == lastOp.minute
        IN  /\ (240 <= t /\ t <= 569) => tradeSession = "pre_market"
            /\ (570 <= t /\ t <= 959) => tradeSession = "regular"
            /\ (960 <= t /\ t <= 1199) => tradeSession = "post_market"

\* the interval fired at 09:30 New York time and the page shows the regular session
C11_Witness ==
    /\ mounted
    /\ lastOp.op = "tick"
    /\ lastOp.minute = 570
    /\ tradeSession = "regular"

\* C12: a task that read the New York clock at a minute t >= 1200 or t < 240
\* has stored the label overnight
C12_OvernightLabel ==
    (mounted /\ lastOp.minute >= 0 /\ (lastOp.minute >= 1200 \/ lastOp.minute < 240)) =>
        tradeSession = "overnight"

\* the label and the price key of a minute of the New York day, as a table
LabelAt(t) ==
    IF t \in 570..959 THEN "regular"
    ELSE IF t \in 240..569 THEN "pre_market"
    ELSE "post_market"

KeyAt(t) ==
    IF t \in 570..959 THEN "current"
    ELSE IF t \in 240..569 THEN "pre_market"
    ELSE "post_market"

----------------------------------------------------------------------------
(* Price updates and polling *)

\* C13: when the price map of a response holds records for only some of the
\* held symbols, every position whose symbol is in the map gets the price
\* selected from its record and the pnl derived from it, and every position
\* whose symbol is not in the map keeps its price and pnl
C13_PartialUpdate ==
    [][(mounted /\ lastOp'.op = "quote_partial" /\ ~lastOp'.stale
           /\ lastOp'.account = selectedAccount) =>
          /\ Len(positions') = Len(positions)
          /\ \A i \in 1..Len(positions) :
                LET p == positions[i]
                    n == positions'[i]
                    map == lastOp'.resp.map
                IN  IF p.symbol \in DOMAIN map
                    THEN /\ n.price = SelectPrice(map[p.symbol], lastOp'.ts)
                         /\ n.pnl = Mul(Sub(n.price, Num(p.cost_price)), Num(p.quantity))
                    ELSE /\ n.price = p.price
                         /\ n.pnl = p.pnl]_vars

\* C14: applying the price map and session that the task before has just
\* applied leaves positions and marketPnl as they are
C14_ApplyTwiceIsApplyOnce ==
    [][lastOp'.repeat => LedgerUnchanged]_vars

\* the same price map was applied twice in a row to a ledger with positions
C14_Witness ==
    /\ lastOp.repeat
    /\ mounted
    /\ Len(positions) > 0
    /\ marketPnl.US.t = "num"
    /\ marketPnl.US.v # 0

\* C15: no request in flight was issued for an empty symbol list, and a pass
\* started by the interval or by fetchAccountData that issues no request
\* leaves the requests in flight and marketPnl as they are; when started by
\* the interval it leaves positions as they are too
C15_EmptyPassIsNoOp ==
    /\ [](\A i \in 1..Len(quotes) : Len(quotes[i].pos) > 0)
    /\ [][(lastOp'.op \in {"tick", "fetch_ok"} /\ ~lastOp'.issued) =>
             /\ Fresh(quotes') = Fresh(quotes)
             /\ marketPnl' = marketPnl
             /\ (lastOp'.op = "tick" => positions' = positions)]_vars

\* the interval fired while the position list of its closure was empty
C15_Witness ==
    /\ mounted
    /\ lastOp.op = "tick"
    /\ ~lastOp.issued
    /\ Len(positions) = 0
    /\ Len(quotes) = 0

----------------------------------------------------------------------------
(* Malformed records, markets and sessions *)

\* a record of the price map has neither the price of the session nor the
\* regular price
Malformed(map, ts) ==
    \E sym \in DOMAIN map :
        /\ (ts \o "_price") \notin DOMAIN map[sym]
        /\ "regular_price" \notin DOMAIN map[sym]

\* C18: a response in which the record of a held symbol has neither a price
\* for the resolved session nor a regular price changes neither positions nor
\* marketPnl
C18_MalformedIsNoOp ==
    [][(mounted /\ lastOp'.op = "quote_ok" /\ Malformed(lastOp'.resp.map, lastOp'.ts))
          => LedgerUnchanged]_vars

\* C19: every position of the ledger has the market HK or US: US when its
\* symbol has no suffix, HK when the suffix of its symbol is HK, whatever
\* market the record of the backend carried
C19_MarketFromSymbol ==
    \A i \in 1..Len(positions) :
        LET p == positions[i]
        IN  /\ p.market \in {"HK", "US"}
            /\ Len(p.symbol) = 1 => p.market = "US"
            /\ p.symbol[Len(p.symbol)] = "HK" => p.market = "HK"

\* the price keys refreshTradeSession can return for the New York clock
ClockKeys == {"current", "pre_market", "post_market"}

\* C20: the price written for a HK position is not selected with the label
\* of the New York clock: it is the same whatever that label was
C20_HKPriceIgnoresUSClock ==
    (lastOp.op = "quote_ok" /\ mounted /\ ~lastOp.stale
        /\ lastOp.account = selectedAccount) =>
        \A i \in 1..Len(positions) :
            LET p == positions[i]
            IN  (p.market = "HK" /\ p.symbol \in DOMAIN lastOp.resp.map) =>
                    \A k \in ClockKeys :
                        p.price = SelectPrice(lastOp.resp.map[p.symbol], k)

----------------------------------------------------------------------------
(* Requests, labels, fetches and timers of the account page *)

\* C21: every quote request in flight pairs its account with symbols of a
\* position list the positions endpoint returns for that account
C21_RequestPairsAccountWithItsHoldings ==
    \A i \in 1..Len(quotes) :
        \E raw \in BackendPositions(quotes[i].account) :
            Symbols(quotes[i].pos) = Symbols(raw)

\* C22: on a mounted page tradeSession changes only in the task that applies
\* a quote response, not when a pass is started, fails or is in flight
C22_LabelChangesWithAppliedPrices ==
    [][(mounted' /\ tradeSession' # tradeSession) => lastOp'.op = "quote_ok"]_vars

\* C23: on a mounted page at most one fetchAccountData is in flight, and
\* loading is true exactly while one is
C23_OneFetchWhileLoading ==
    mounted => /\ Len(fetches) <= 1
               /\ loading <=> Len(fetches) = 1

\* the refresh button started a fetch on a page that had shown its positions
C23_Witness ==
    /\ mounted
    /\ lastOp.op = "refresh"
    /\ loading
    /\ Len(fetches) = 1
    /\ fetches[1].cause = "refresh"

\* C24: on a mounted page every fetchAccountData sets loading back to false
\* in the end, and a fetch that fails leaves positions as they are
C24_LoadingEnds ==
    /\ [][lastOp'.op = "fetch_fail" => positions' = positions]_vars
    /\ ((mounted /\ loading) ~> (~loading \/ ~mounted))

\* a fetch has failed and the spinner is gone
C24_Witness ==
    /\ mounted
    /\ lastOp.op = "fetch_fail"
    /\ ~loading
    /\ Len(fetches) = 0
    /\ Len(positions) = 0

\* C28: at most one interval is armed, and none after the page is left
C28_OneTimer ==
    /\ Cardinality(timers) <= 1
    /\ ~mounted => timers = {}

\* a quote response changed positions and the interval armed is the one of
\* the new positions
C28_Witness ==
    /\ mounted
    /\ lastOp.op = "quote_ok"
    /\ Len(positions) > 0
    /\ timers = {Timer(selectedAccount, positions)}

\* C29: for the minute a task read, exactly one block of refreshTradeSession
\* is taken (no two conditions hold together), tradeSession is the label of
\* that block, and it is a key of sessionMap
C29_ClockIsTotal ==
    (mounted /\ lastOp.minute >= 0) =>
        LET t == lastOp.minute
            taken == {b \in 1..3 : BranchCondition(b, t)}
        IN  /\ Cardinality(taken) <= 1
            /\ \A b \in taken : tradeSession = BranchLabel(b)
            /\ taken = {} => tradeSession = BranchLabel(4)
            /\ tradeSession \in sessionMap

\* the interval fired in the night hours and the label stored is a key of sessionMap
C29_Witness ==
    /\ mounted
    /\ lastOp.op = "tick"
    /\ lastOp.minute = 1439
    /\ tradeSession = "post_market"

----------------------------------------------------------------------------
(* The api methods and the log panel of the task page *)

C26_TimerFetchesSelectedTask ==
    [][(lastTaskOp'.op = "tick" /\ selectedTaskId # "null") =>
          /\ lastTaskOp'.issued
          /\ lastTaskOp'.taskId = selectedTaskId]_vars

\* C27: when no api call is in flight, a task is selected and logs were set
\* from a response for it since it was selected, every log line shown is a
\* line of the selected task
C27_LogsAreOfSelectedTask ==
    (Len(calls) = 0 /\ selectedTaskId # "null" /\ answered) =>
        \A k \in 1..Len(logs) : logs[k] = selectedTaskId

====
